---- MODULE Spec2Model ----
(***************************************************************************)
(* A model of gensnippets (Generate, processExamples, writeExamples,       *)
(* header) and of the partition contract exercised by the firestore        *)
(* collection-group test.                                                  *)
(*                                                                         *)
(* Text is a sequence of tokens.  Text the code inspects character by      *)
(* character (import paths, formatted example source, file names) is kept  *)
(* one character per token.  Literal text that is only ever copied (the    *)
(* license header lines, the marker words) is kept as whole tokens; such a *)
(* token never holds a newline, so the newline is always a token of its    *)
(* own and the line structure of a text is that of the Go string.          *)
(***************************************************************************)
EXTENDS Integers, Sequences, FiniteSets, TLC

VARIABLES
    rootDir,        \* Generate's rootDir argument
    tree,           \* the directory tree below rootDir: path -> "dir" | "file"
    apiShortnames,  \* Generate's apiShortnames argument: import path -> shortname
    unwritable,     \* directories on which os.MkdirAll fails
    year,           \* time.Now().Year(), as printed by %v
    pc,             \* position in Generate
    dirs,           \* module directories found by the walk
    mi,             \* index of the module being handled (the outer loop)
    pis,            \* packages loaded for that module
    pidx,           \* index of the package being handled (the inner loop)
    loaded,         \* import paths loaded so far
    done,           \* one record per finished processExamples call
    errs,           \* the errors collected by Generate
    writes,         \* one record per file written, in write order
    mkdirs,         \* directories created by os.MkdirAll
    goimports,      \* whether goimports was run
    ret,            \* how Generate ended
    cgr,            \* firestore: the collection group reference
    got             \* firestore: the result of the last GetPartitions call

vars == <<rootDir, tree, apiShortnames, unwritable, year, pc, dirs, mi, pis, pidx,
          loaded, done, errs, writes, mkdirs, goimports, ret, cgr, got>>

\* ---------------------------------------------------------------- bounds

MaxLines == 2
MaxLineLen == 2
MaxPkgs == 2
MaxCount == 3

\* ------------------------------------------------------- package strings

NL == "\n"
TAB == "\t"

RECURSIVE Flatten(_)
Flatten(ss) == IF ss = <<>> THEN <<>> ELSE Head(ss) \o Flatten(Tail(ss))

\* strings.HasPrefix
HasPrefix(s, prefix) ==
    Len(prefix) <= Len(s) /\ SubSeq(s, 1, Len(prefix)) = prefix

\* strings.HasSuffix
HasSuffix(s, suffix) ==
    Len(suffix) <= Len(s) /\ SubSeq(s, Len(s) - Len(suffix) + 1, Len(s)) = suffix

TrimAllPrefix(s, prefix) ==
    LET n == CHOOSE k \in 0..Len(s) :
                 /\ \A i \in 1..k : <<s[i]>> = prefix
                 /\ (k < Len(s) => <<s[k + 1]>> # prefix)
    IN  SubSeq(s, n + 1, Len(s))

\* strings.TrimPrefix
TrimPrefix(s, prefix) ==
    IF HasPrefix(s, prefix) THEN SubSeq(s, Len(prefix) + 1, Len(s)) ELSE s

\* strings.ReplaceAll, for a one-character old and new
ReplaceAll(s, old, new) ==
    [i \in 1..Len(s) |-> IF s[i] = old THEN new ELSE s[i]]

\* strings.Split, for a one-character separator
RECURSIVE Split(_, _)
Split(s, sep) ==
    IF \A i \in 1..Len(s) : s[i] # sep
    THEN <<s>>
    ELSE LET i == CHOOSE k \in 1..Len(s) :
                      s[k] = sep /\ \A j \in 1..(k - 1) : s[j] # sep
         IN  <<SubSeq(s, 1, i - 1)>> \o Split(SubSeq(s, i + 1, Len(s)), sep)

\* fmt.Sprintf / fmt.Fprintf with one %v verb
Sprintf(format, v) ==
    Flatten([i \in 1..Len(format) |->
                IF format[i] = "%v" THEN v ELSE <<format[i]>>])

\* ------------------------------------------------------ package filepath

RECURSIVE JoinWith(_, _)
JoinWith(elems, sep) ==
    IF elems = <<>> THEN <<>>
    ELSE IF Len(elems) = 1 THEN elems[1]
    ELSE elems[1] \o <<sep>> \o JoinWith(Tail(elems), sep)

NonEmpty(ss) == SelectSeq(ss, LAMBDA e : e # <<>>)

\* filepath.Clean of a relative path without ".." elements
Clean(p) ==
    LET parts == SelectSeq(Split(p, "/"), LAMBDA e : e # <<>> /\ e # <<".">>)
    IN  IF parts = <<>> THEN <<".">> ELSE JoinWith(parts, "/")

\* filepath.Join of two elements
Join(a, b) ==
    LET elems == NonEmpty(<<a, b>>)
    IN  IF elems = <<>> THEN <<>> ELSE Clean(JoinWith(elems, "/"))

\* --------------------------------------------------- gensnippets: text

licenseHeader ==
    << "// Copyright ", "%v", " Google LLC", NL,
       "//", NL,
       "// Licensed under the Apache License, Version 2.0 (the \"License\");", NL,
       "// you may not use this file except in compliance with the License.", NL,
       "// You may obtain a copy of the License at", NL,
       "//", NL,
       "//      http://www.apache.org/licenses/LICENSE-2.0", NL,
       "//", NL,
       "// Unless required by applicable law or agreed to in writing, software", NL,
       "// distributed under the License is distributed on an \"AS IS\" BASIS,", NL,
       "// WITHOUT WARRANTIES OR CONDITIONS OF ANY KIND, either express or implied.", NL,
       "// See the License for the specific language governing permissions and", NL,
       "// limitations under the License.", NL,
       NL >>

header == Sprintf(licenseHeader, year)

startFormat == <<"// [START ", "%v", "]", NL, NL>>
endFormat == <<"// [END ", "%v", "]", NL>>

mainGo == <<"m", "a", "i", "n", ".", "g", "o">>
packageMain == <<"p", "a", "c", "k", "a", "g", "e", " ", "m", "a", "i", "n">>
braceComment == <<" ", "/", "/", "c">>

\* What format.Node prints for an example. node is ex.Play (a whole file: go/printer
\* ends a file with a newline) when the example is playable, and otherwise ex.Code
\* with its comments: the function body, printed as a block statement from its
\* opening brace (followed, on the same line, by a comment the source has there)
\* to its closing brace, with no newline after it. lines are the printed lines
\* in between, as printed (the printer's indentation included).
FormatNode(ex) ==
    LET body == Flatten([i \in 1..Len(ex.Code.lines) |-> ex.Code.lines[i] \o <<NL>>])
    IN  IF ex.Play
        THEN packageMain \o <<NL>> \o body
        ELSE <<"{">> \o (IF ex.Code.comment THEN braceComment ELSE <<>>)
                 \o <<NL>> \o body \o <<"}">>

TrimLines(lines) ==
    Flatten([i \in 1..Len(lines) |-> TrimPrefix(lines[i], <<TAB>>) \o <<NL>>])

TrimLinesAll(lines) ==
    Flatten([i \in 1..Len(lines) |-> TrimAllPrefix(lines[i], <<TAB>>) \o <<NL>>])

\* writeExamples, lines 188-197: the body written for formatted source s
StripBlockMutant(s) ==
    IF HasPrefix(s, <<"{", NL>>) /\ HasSuffix(s, <<NL, "}">>)
    THEN LET lines == Split(s, NL)
         IN  TrimLinesAll(SubSeq(lines, 2, Len(lines) - 1))
    ELSE s

StripBlock(s) ==
    IF HasPrefix(s, <<"{", NL>>) /\ HasSuffix(s, <<NL, "}">>)
    THEN LET lines == Split(s, NL)
         IN  TrimLines(SubSeq(lines, 2, Len(lines) - 1))
    ELSE s

\* writeExamples, lines 207-220: what is written to the file
FileContent(tag, s) ==
    header \o Sprintf(startFormat, tag) \o s \o Sprintf(endFormat, tag)

ExampleDirMutant(outDir, ex, n) ==
    IF n > 2 THEN Join(outDir, ex.Suffix) ELSE outDir

\* writeExamples, lines 170-174: the directory of one example among n
ExampleDir(outDir, ex, n) ==
    IF n > 1 THEN Join(outDir, ex.Suffix) ELSE outDir

\* writeExamples, line 210
ExampleTag(regionTag, ex) == regionTag \o <<"_">> \o ex.Name

\* One iteration of the loop of writeExamples on state st = [writes, mkdirs, err]:
\* a failing os.MkdirAll returns the error before anything is written.
WriteExample(outDir, exs, i, regionTag, pkg, call, st) ==
    LET ex == exs[i]
        dir == ExampleDir(outDir, ex, Len(exs))
        filename == Join(dir, mainGo)
        s == FormatNode(ex)
        tag == ExampleTag(regionTag, ex)
    IN  IF dir \in unwritable
        THEN [st EXCEPT !.err = "mkdir"]
        ELSE [st EXCEPT
                !.mkdirs = @ \cup {dir},
                !.writes = Append(@, [pkg |-> pkg, call |-> call, outDir |-> outDir,
                                      n |-> Len(exs), ex |-> ex, regionTag |-> regionTag,
                                      filename |-> filename, tag |-> tag, src |-> s,
                                      content |-> FileContent(tag, StripBlock(s))])]

RECURSIVE WriteFrom(_, _, _, _, _, _, _)
WriteFrom(outDir, exs, i, regionTag, pkg, call, st) ==
    IF i > Len(exs) \/ st.err # "" THEN st
    ELSE WriteFrom(outDir, exs, i + 1, regionTag, pkg, call,
                   WriteExample(outDir, exs, i, regionTag, pkg, call, st))

writeExamples(outDir, exs, regionTag, pkg, call, st) ==
    WriteFrom(outDir, exs, 1, regionTag, pkg, call, st)

\* ----------------------------------------------- gensnippets: packages

trimPrefix == <<"c", "l", "o", "u", "d", ".", "g", "o", "o", "g", "l", "e", ".", "c", "o", "m", "/", "g", "o">>

defaultOutDir == <<"i", "n", "t", "e", "r", "n", "a", "l", "/", "g", "e", "n", "e", "r", "a", "t", "e", "d", "/", "s", "n", "i", "p", "p", "e", "t", "s">>

\* The import path trimPrefix + rest
Pkg(rest) == trimPrefix \o rest

skip ==
    { Pkg(<<>>),
      Pkg(<<"/", "c", "i", "v", "i", "l">>),
      Pkg(<<"/", "c", "l", "o", "u", "d", "b", "u", "i", "l", "d", "/", "a", "p", "i", "v", "1">>),
      Pkg(<<"/", "c", "m", "d", "/", "g", "o", "-", "c", "l", "o", "u", "d", "-", "d", "e", "b", "u", "g", "-", "a", "g", "e", "n", "t">>),
      Pkg(<<"/", "c", "o", "n", "t", "a", "i", "n", "e", "r">>),
      Pkg(<<"/", "c", "o", "n", "t", "a", "i", "n", "e", "r", "a", "n", "a", "l", "y", "s", "i", "s", "/", "a", "p", "i", "v", "1">>),
      Pkg(<<"/", "g", "r", "a", "f", "e", "a", "s", "/", "a", "p", "i", "v", "1">>),
      Pkg(<<"/", "h", "t", "t", "p", "r", "e", "p", "l", "a", "y">>),
      Pkg(<<"/", "h", "t", "t", "p", "r", "e", "p", "l", "a", "y", "/", "c", "m", "d", "/", "h", "t", "t", "p", "r">>),
      Pkg(<<"/", "l", "o", "n", "g", "r", "u", "n", "n", "i", "n", "g">>),
      Pkg(<<"/", "m", "o", "n", "i", "t", "o", "r", "i", "n", "g", "/", "a", "p", "i", "v", "3">>),
      Pkg(<<"/", "t", "r", "a", "n", "s", "l", "a", "t", "e">>) }

\* processExamples, lines 118-125: the loop over the map, its keys met in the
\* order given (Go fixes no iteration order for a map)
RECURSIVE BestMatchFrom(_, _, _, _)
BestMatchFrom(importPath, order, i, bestMatch) ==
    IF i > Len(order) THEN bestMatch
    ELSE LET path == order[i]
         IN  BestMatchFrom(importPath, order, i + 1,
                 IF HasPrefix(importPath, path) /\ Len(path) > Len(bestMatch)
                 THEN path ELSE bestMatch)

LookupShortnameMutant(importPath, order) ==
    IF importPath \in DOMAIN apiShortnames
    THEN [ok |-> TRUE, shortname |-> apiShortnames[importPath], bestMatch |-> importPath]
    ELSE LET bestMatch == BestMatchFrom(importPath, order, 1, <<>>)
         IN  [ok |-> TRUE,
              shortname |-> IF bestMatch = <<>> THEN <<>> ELSE apiShortnames[bestMatch],
              bestMatch |-> bestMatch]

\* processExamples, lines 113-131
LookupShortname(importPath, order) ==
    IF importPath \in DOMAIN apiShortnames
    THEN [ok |-> TRUE, shortname |-> apiShortnames[importPath], bestMatch |-> importPath]
    ELSE LET bestMatch == BestMatchFrom(importPath, order, 1, <<>>)
         IN  IF bestMatch = <<>>
             THEN [ok |-> FALSE, shortname |-> <<>>, bestMatch |-> <<>>]
             ELSE [ok |-> TRUE, shortname |-> apiShortnames[bestMatch],
                   bestMatch |-> bestMatch]

generated == <<"_", "g", "e", "n", "e", "r", "a", "t", "e", "d">>

RegionTagMutant(shortname, trimmed) == shortname \o generated \o trimmed

\* processExamples, line 132
RegionTag(shortname, trimmed) ==
    shortname \o generated \o ReplaceAll(trimmed, "/", "_")

\* processExamples, lines 136-160: the writeExamples calls, in the order made
TypeCalls(outDir, t) ==
    LET dir == Join(outDir, t.Name)
    IN  <<[dir |-> dir, exs |-> t.Examples]>>
        \o [i \in 1..Len(t.Funcs) |->
               [dir |-> Join(dir, t.Funcs[i].Name), exs |-> t.Funcs[i].Examples]]
        \o [i \in 1..Len(t.Methods) |->
               [dir |-> Join(dir, t.Methods[i].Name), exs |-> t.Methods[i].Examples]]

SymbolCalls(outDir, pkg) ==
    [i \in 1..Len(pkg.Funcs) |->
        [dir |-> Join(outDir, pkg.Funcs[i].Name), exs |-> pkg.Funcs[i].Examples]]
    \o Flatten([i \in 1..Len(pkg.Types) |-> TypeCalls(outDir, pkg.Types[i])])

RECURSIVE RunCalls(_, _, _, _, _)
RunCalls(calls, i, regionTag, pkg, st) ==
    IF i > Len(calls) \/ st.err # "" THEN st
    ELSE RunCalls(calls, i + 1, regionTag, pkg,
                  writeExamples(calls[i].dir, calls[i].exs, regionTag, pkg, i, st))

\* processExamples on the files written so far; order is the map's iteration order
processExamples(pkg, outDir, order, st) ==
    IF pkg.ImportPath \in skip
    THEN [st |-> st, result |-> "skip", shortname |-> <<>>, bestMatch |-> <<>>]
    ELSE LET trimmed == TrimPrefix(pkg.ImportPath, trimPrefix)
             out == Join(outDir, trimmed)
             sn == LookupShortname(pkg.ImportPath, order)
         IN  IF ~sn.ok
             THEN [st |-> [st EXCEPT !.err = "could not find API shortname"],
                   result |-> "error", shortname |-> <<>>, bestMatch |-> <<>>]
             ELSE LET st2 == RunCalls(SymbolCalls(out, pkg), 1,
                                      RegionTag(sn.shortname, trimmed),
                                      pkg.ImportPath, st)
                  IN  [st |-> st2, result |-> IF st2.err = "" THEN "ok" ELSE "error",
                       shortname |-> sn.shortname, bestMatch |-> sn.bestMatch]

\* ------------------------------------------------- gensnippets: the walk

\* The names a directory may hold, in the order os.ReadDir returns them (sorted
\* by file name)
sortedNames == <<"go.mod", "internal", "kms">>

EmptyTree == [p \in {} |-> "dir"]

\* The tree holding entry name, of the given kind, with tree sub below it
Entry(name, kind, sub) ==
    [p \in {<<name>>} \cup {<<name>> \o q : q \in DOMAIN sub} |->
        IF p = <<name>> THEN kind ELSE sub[Tail(p)]]

\* The trees made of a choice for each name: a go.mod file or none, an entry
\* named internal (a file, or a directory holding one of subs) or none, a
\* directory kms holding one of subs or none
TreesOver(subs) ==
    { a @@ b @@ c :
        a \in {EmptyTree, Entry("go.mod", "file", EmptyTree)},
        b \in {EmptyTree, Entry("internal", "file", EmptyTree)}
                 \cup {Entry("internal", "dir", t) : t \in subs},
        c \in {EmptyTree} \cup {Entry("kms", "dir", t) : t \in subs} }

Trees == TreesOver(TreesOver({EmptyTree}))

Children(path) ==
    SelectSeq(sortedNames, LAMBDA n : Append(path, n) \in DOMAIN tree)

\* filepath.Dir
Dir(path) == SubSeq(path, 1, Len(path) - 1)

\* fs.DirEntry.Name of the root: the base name of rootDir ("" stands for ".")
RootName == IF rootDir = "" THEN "." ELSE rootDir

\* Generate, lines 47-58: the function handed to filepath.WalkDir (err is nil)
WalkFn(path, name, ds) ==
    IF name = "internal" THEN [err |-> "SkipDir", dirs |-> ds]
    ELSE IF name = "go.mod" THEN [err |-> "nil", dirs |-> Append(ds, Dir(path))]
    ELSE [err |-> "nil", dirs |-> ds]

\* filepath.WalkDir: fs.SkipDir returned for a directory skips that directory;
\* returned for any other entry it skips the rest of the containing directory
RECURSIVE walkDir(_, _, _, _), walkEntries(_, _, _, _)
walkDir(path, name, isDir, ds) ==
    LET r == WalkFn(path, name, ds)
    IN  IF r.err = "SkipDir"
        THEN [err |-> IF isDir THEN "nil" ELSE "SkipDir", dirs |-> r.dirs]
        ELSE IF ~isDir THEN r
        ELSE walkEntries(path, Children(path), 1, r.dirs)

walkEntries(path, names, i, ds) ==
    IF i > Len(names) THEN [err |-> "nil", dirs |-> ds]
    ELSE LET child == Append(path, names[i])
             r == walkDir(child, names[i], tree[child] = "dir", ds)
         IN  IF r.err = "SkipDir" THEN [err |-> "nil", dirs |-> r.dirs]
             ELSE walkEntries(path, names, i + 1, r.dirs)

WalkDir == walkDir(<<>>, RootName, TRUE, <<>>).dirs

\* ---------------------------------------------------- gensnippets: input

S_F == <<"F">>
S_T == <<"T">>
S_a == <<"a">>
S_Open == <<"O", "p", "e", "n">>

Block(lines) == [comment |-> FALSE, lines |-> lines]

Ex(name, suffix, play) ==
    [Name |-> name, Suffix |-> suffix, Play |-> play,
     Code |-> Block(<< <<TAB, "x">> >>)]

Func(name, exs) == [Name |-> name, Examples |-> exs]

pkgKms ==
    [ImportPath |-> Pkg(<<"/", "k", "m", "s">>),
     Funcs |-> <<>>,
     Types |-> << [Name |-> S_T, Examples |-> <<>>,
                   Funcs |-> << Func(S_Open, <<Ex(S_Open, <<>>, TRUE)>>) >>,
                   Methods |-> << Func(S_Open,
                                       <<Ex(S_T \o <<"_">> \o S_Open, <<>>, TRUE)>>) >>] >>]

pkgPubsub ==
    [ImportPath |-> Pkg(<<"/", "p", "u", "b", "s", "u", "b">>),
     Funcs |-> << Func(S_F, << Ex(S_F, <<>>, FALSE),
                               Ex(S_F \o <<"_">> \o S_a, S_a, FALSE) >>) >>,
     Types |-> <<>>]

pkgPubsublite ==
    [ImportPath |-> Pkg(<<"/", "p", "u", "b", "s", "u", "b", "l", "i", "t", "e">>),
     Funcs |-> << Func(S_F, <<Ex(S_F, <<>>, TRUE)>>) >>,
     Types |-> <<>>]

pkgPubsubliteApiv1 ==
    [ImportPath |-> Pkg(<<"/", "p", "u", "b", "s", "u", "b", "l", "i", "t", "e", "/", "a", "p", "i", "v", "1">>),
     Funcs |-> <<>>,
     Types |-> << [Name |-> S_T, Examples |-> <<Ex(S_T, <<>>, FALSE)>>,
                   Funcs |-> <<>>, Methods |-> <<>>] >>]

pkgCivil ==
    [ImportPath |-> Pkg(<<"/", "c", "i", "v", "i", "l">>),
     Funcs |-> << Func(S_F, <<Ex(S_F, <<>>, FALSE)>>) >>,
     Types |-> <<>>]

pkgVision ==
    [ImportPath |-> Pkg(<<"/", "v", "i", "s", "i", "o", "n">>),
     Funcs |-> << Func(S_F, <<Ex(S_F, <<>>, FALSE)>>) >>,
     Types |-> <<>>]

\* The packages pkgload.Load may return
catalog == <<pkgCivil, pkgKms, pkgPubsub, pkgPubsublite, pkgPubsubliteApiv1, pkgVision>>

shortKms == <<"c", "l", "o", "u", "d", "k", "m", "s">>
shortPubsub == <<"p", "u", "b", "s", "u", "b">>
shortPubsublite == <<"p", "u", "b", "s", "u", "b", "l", "i", "t", "e">>

ShortnameMaps ==
    { (pkgKms.ImportPath :> shortKms) @@ (pkgPubsub.ImportPath :> shortPubsub)
          @@ (pkgPubsublite.ImportPath :> shortPubsublite),
      (pkgKms.ImportPath :> shortKms) @@ (pkgPubsub.ImportPath :> shortPubsub),
      [p \in {} |-> <<>>] }

\* Generate, lines 41-43
OutDir(outDir) == IF outDir = <<>> THEN defaultOutDir ELSE outDir

MainTrees ==
    { EmptyTree,
      Entry("go.mod", "file", EmptyTree),
      Entry("go.mod", "file", EmptyTree)
          @@ Entry("kms", "dir", Entry("go.mod", "file", EmptyTree)) }

UnwritableSets ==
    { {}, {Join(Join(defaultOutDir, TrimPrefix(pkgPubsub.ImportPath, trimPrefix)), S_F)} }

\* ------------------------------------------------- gensnippets: Generate

\* The orders in which a range over apiShortnames may meet its keys
KeyOrders ==
    LET keys == DOMAIN apiShortnames
    IN  { o \in [1..Cardinality(keys) -> keys] :
            \A i, j \in 1..Cardinality(keys) : i # j => o[i] # o[j] }

\* What pkgload.Load may return for a module besides an error: packages not
\* loaded before (an import path belongs to one module), at most MaxPkgs of them
LoadResults ==
    LET N == Len(catalog)
        idx == UNION { [1..n -> 1..N] : n \in 0..MaxPkgs }
    IN  { [i \in 1..Len(ix) |-> catalog[ix[i]]] :
            ix \in { x \in idx :
                       /\ \A i \in 1..Len(x) : catalog[x[i]].ImportPath \notin loaded
                       /\ \A i, j \in 1..Len(x) : i < j => x[i] < x[j] } }

\* Generate, lines 45-58: the walk that finds the modules
GenerateWalk ==
    /\ pc = "walk"
    /\ dirs' = WalkDir
    /\ mi' = 1
    /\ pc' = "load"
    /\ UNCHANGED <<rootDir, tree, apiShortnames, unwritable, year, pis, pidx, loaded,
                   done, errs, writes, mkdirs, goimports, ret, cgr, got>>

\* Generate, lines 64-69: pkgload.Load fails for module mi
GenerateLoadFails ==
    /\ pc = "load"
    /\ mi <= Len(dirs)
    /\ ret' = "failed to load packages"
    /\ pc' = "done"
    /\ UNCHANGED <<rootDir, tree, apiShortnames, unwritable, year, dirs, mi, pis, pidx,
                   loaded, done, errs, writes, mkdirs, goimports, cgr, got>>

\* Generate, lines 64-70: pkgload.Load returns the packages of module mi
GenerateLoad ==
    /\ pc = "load"
    /\ mi <= Len(dirs)
    /\ \E ps \in LoadResults :
         /\ pis' = ps
         /\ loaded' = loaded \cup {ps[i].ImportPath : i \in 1..Len(ps)}
         /\ IF ps = <<>>
            THEN mi' = mi + 1 /\ pc' = "load"
            ELSE mi' = mi /\ pc' = "process"
    /\ pidx' = 1
    /\ UNCHANGED <<rootDir, tree, apiShortnames, unwritable, year, dirs, done, errs,
                   writes, mkdirs, goimports, ret, cgr, got>>

CollectErrMutant(es, pkg, r) == es

\* Generate, lines 71-73: a processExamples error is collected
CollectErr(es, pkg, r) ==
    IF r.result = "error"
    THEN Append(es, [pkg |-> pkg.ImportPath, err |-> r.st.err])
    ELSE es

\* Generate, lines 70-74: one iteration of the loop over the packages
GenerateProcess ==
    /\ pc = "process"
    /\ pidx <= Len(pis)
    /\ \E order \in KeyOrders :
         LET pkg == pis[pidx]
             r == processExamples(pkg, OutDir(<<>>), order,
                                  [writes |-> writes, mkdirs |-> mkdirs, err |-> ""])
         IN  /\ writes' = r.st.writes
             /\ mkdirs' = r.st.mkdirs
             /\ errs' = CollectErr(errs, pkg, r)
             /\ done' = Append(done, [pkg |-> pkg.ImportPath, mi |-> mi,
                                      result |-> r.result, err |-> r.st.err,
                                      shortname |-> r.shortname,
                                      bestMatch |-> r.bestMatch])
    /\ pidx' = pidx + 1
    /\ IF pidx = Len(pis)
       THEN mi' = mi + 1 /\ pc' = "load"
       ELSE mi' = mi /\ pc' = "process"
    /\ UNCHANGED <<rootDir, tree, apiShortnames, unwritable, year, dirs, pis, loaded,
                   goimports, ret, cgr, got>>

\* Generate, lines 76-78: log.Fatal ends the process
GenerateFatal ==
    /\ pc = "load"
    /\ mi > Len(dirs)
    /\ Len(errs) > 0
    /\ ret' = "fatal"
    /\ pc' = "done"
    /\ UNCHANGED <<rootDir, tree, apiShortnames, unwritable, year, dirs, mi, pis, pidx,
                   loaded, done, errs, writes, mkdirs, goimports, cgr, got>>

\* Generate, lines 80-88: goimports runs, and fails or not
GenerateGoimports ==
    /\ pc = "load"
    /\ mi > Len(dirs)
    /\ Len(errs) = 0
    /\ Len(dirs) > 0
    /\ goimports' = TRUE
    /\ \E ok \in BOOLEAN : ret' = IF ok THEN "nil" ELSE "failed to run goimports"
    /\ pc' = "done"
    /\ UNCHANGED <<rootDir, tree, apiShortnames, unwritable, year, dirs, mi, pis, pidx,
                   loaded, done, errs, writes, mkdirs, cgr, got>>

\* Generate, lines 80, 88: no module was found
GenerateNoModules ==
    /\ pc = "load"
    /\ mi > Len(dirs)
    /\ Len(errs) = 0
    /\ Len(dirs) = 0
    /\ ret' = "nil"
    /\ pc' = "done"
    /\ UNCHANGED <<rootDir, tree, apiShortnames, unwritable, year, dirs, mi, pis, pidx,
                   loaded, done, errs, writes, mkdirs, goimports, cgr, got>>

NoCgr == [collectionID |-> "", Query |-> ""]
NoGot == [called |-> FALSE, count |-> 0, query |-> "", err |-> FALSE, parts |-> <<>>]

InitRun ==
    /\ dirs = <<>>
    /\ mi = 0
    /\ pis = <<>>
    /\ pidx = 0
    /\ loaded = {}
    /\ done = <<>>
    /\ errs = <<>>
    /\ writes = <<>>
    /\ mkdirs = {}
    /\ goimports = FALSE
    /\ ret = "running"
    /\ cgr = NoCgr
    /\ got = NoGot

Init ==
    /\ rootDir = ""
    /\ tree \in MainTrees
    /\ apiShortnames \in ShortnameMaps
    /\ unwritable \in UnwritableSets
    /\ year = <<"2021">>
    /\ pc = "walk"
    /\ InitRun

Next ==
    \/ GenerateWalk
    \/ GenerateLoadFails
    \/ GenerateLoad
    \/ GenerateProcess
    \/ GenerateFatal
    \/ GenerateGoimports
    \/ GenerateNoModules

Spec == Init /\ [][Next]_vars

\* ------------------------------------------------------------- claims

Range(f) == {f[i] : i \in DOMAIN f}

\* The done record of package p (a package is processed at most once)
DoneOf(p) == CHOOSE d \in Range(done) : d.pkg = p

\* C2: the region tag of every written example is the package's resolved
\* shortname, "_generated", the import path without the prefix
\* "cloud.google.com/go" and with "_" for every "/", "_", and the example's
\* name; the examples of one package share everything before the name.
TagOfExample ==
    \A w \in Range(writes) :
        LET rest == SubSeq(w.pkg, Len(trimPrefix) + 1, Len(w.pkg))
            sn == DoneOf(w.pkg).shortname
            a == Len(sn)
            b == a + Len(generated)
            c == b + Len(rest)
        IN  /\ HasPrefix(w.pkg, trimPrefix)
            /\ Len(w.tag) = c + 1 + Len(w.ex.Name)
            /\ SubSeq(w.tag, 1, a) = sn
            /\ SubSeq(w.tag, a + 1, b) = generated
            /\ \A i \in 1..Len(rest) :
                 w.tag[b + i] = IF rest[i] = "/" THEN "_" ELSE rest[i]
            /\ w.tag[c + 1] = "_"
            /\ SubSeq(w.tag, c + 2, Len(w.tag)) = w.ex.Name
            /\ \A v \in Range(writes) :
                 v.pkg = w.pkg =>
                   SubSeq(v.tag, 1, Len(v.tag) - Len(v.ex.Name))
                     = SubSeq(w.tag, 1, c + 1)

TagOfExampleWitness ==
    \E w \in Range(writes) :
        /\ w.pkg = pkgPubsubliteApiv1.ImportPath
        /\ w.tag = <<"p", "u", "b", "s", "u", "b", "l", "i", "t", "e", "_", "g", "e", "n", "e", "r", "a", "t", "e", "d", "_", "p", "u", "b", "s", "u", "b", "l", "i", "t", "e", "_", "a", "p", "i", "v", "1", "_", "T">>

\* An ancestor package path of import path p: p continues it with "/"
IsAncestor(k, p) == HasPrefix(p, k \o <<"/">>)

\* C3: a package that is a key of apiShortnames gets that key's shortname; any
\* other package gets the shortname of the longest key that is an ancestor
\* package path of its import path (and none when no key is one).
ShortnameOfNearestEnclosing ==
    \A d \in Range(done) :
        d.result # "skip" =>
          IF d.pkg \in DOMAIN apiShortnames
          THEN d.shortname = apiShortnames[d.pkg]
          ELSE LET anc == {k \in DOMAIN apiShortnames : IsAncestor(k, d.pkg)}
               IN  IF anc = {}
                   THEN d.bestMatch = <<>>
                   ELSE /\ d.bestMatch \in anc
                        /\ \A k \in anc : Len(k) <= Len(d.bestMatch)
                        /\ d.shortname = apiShortnames[d.bestMatch]

\* The directory processExamples writes package p under
PkgOutDir(p) == defaultOutDir \o SubSeq(p, Len(trimPrefix) + 1, Len(p))

NoShortnameFor(p) ==
    /\ p \notin skip
    /\ p \notin DOMAIN apiShortnames
    /\ \A k \in DOMAIN apiShortnames : ~HasPrefix(p, k)

\* C4: a package off the skip list with no entry in apiShortnames and no key
\* that is a prefix of its import path fails with "could not find API
\* shortname"; no file is written and no directory created for it.
NoShortnameNoOutput ==
    \A d \in Range(done) :
        NoShortnameFor(d.pkg) =>
          /\ d.result = "error"
          /\ d.err = "could not find API shortname"
          /\ \E e \in Range(errs) : e.pkg = d.pkg /\ e.err = d.err
          /\ \A w \in Range(writes) : w.pkg # d.pkg
          /\ \A m \in mkdirs :
               m # PkgOutDir(d.pkg) /\ ~HasPrefix(m, PkgOutDir(d.pkg) \o <<"/">>)

NoShortnameNoOutputWitness ==
    /\ apiShortnames # <<>>
    /\ mkdirs # {}
    /\ \E d \in Range(done) : d.pkg = pkgVision.ImportPath /\ d.result = "error"

\* C5: the only example of a symbol goes to <symbol directory>/main.go; each of
\* several examples goes to <symbol directory>/<suffix>/main.go; the examples
\* of one symbol go to pairwise different files.
OneFilePerExample ==
    /\ \A w \in Range(writes) :
         w.filename =
           w.outDir
             \o (IF w.n > 1 /\ w.ex.Suffix # <<>> THEN <<"/">> \o w.ex.Suffix ELSE <<>>)
             \o <<"/">> \o mainGo
    /\ \A i, j \in 1..Len(writes) :
         (i # j /\ writes[i].pkg = writes[j].pkg /\ writes[i].call = writes[j].call)
           => writes[i].filename # writes[j].filename

OneFilePerExampleWitness ==
    \E i, j \in 1..Len(writes) :
        /\ i # j
        /\ writes[i].pkg = pkgPubsub.ImportPath /\ writes[j].pkg = pkgPubsub.ImportPath
        /\ writes[i].call = writes[j].call
        /\ writes[i].n = 2
        /\ writes[j].ex.Suffix = S_a

Failed == {i \in 1..Len(done) : done[i].result = "error"}

\* C7: a processExamples failure is collected and the loops go on: once the
\* loops are over every loaded package of every module has been processed; with
\* a failure collected goimports is not run and Generate does not return nil; a
\* package-load failure returns at once, the module and those after it unprocessed.
ErrorsAggregated ==
    /\ Len(errs) = Cardinality(Failed)
    /\ \A i \in Failed : \E e \in Range(errs) : e.pkg = done[i].pkg
    /\ (pc = "load" \/ ret \in {"fatal", "nil", "failed to run goimports"})
         => {d.pkg : d \in Range(done)} = loaded
    /\ ret \in {"fatal", "nil", "failed to run goimports"}
         => mi = Len(dirs) + 1
    /\ Len(errs) > 0 => ~goimports /\ ret # "nil"
    /\ ret = "failed to load packages"
         => /\ pc = "done"
            /\ mi <= Len(dirs)
            /\ ~goimports
            /\ \A d \in Range(done) : d.mi < mi

ErrorsAggregatedWitness ==
    /\ ret = "fatal"
    /\ Len(done) >= 3
    /\ done[1].result = "error"
    /\ done[2].result = "ok"
    /\ done[3].mi = 2

\* C10: no two examples are written to the same file and no two written files
\* carry the same region tag.
NoFileWrittenTwice ==
    \A i, j \in 1..Len(writes) :
        i # j => /\ writes[i].filename # writes[j].filename
                 /\ writes[i].tag # writes[j].tag

\* ------------------------------------------------------ the walk alone

InitWalk ==
    /\ rootDir \in {"", "internal"}
    /\ tree \in Trees
    /\ apiShortnames = [p \in {} |-> <<>>]
    /\ unwritable = {}
    /\ year = <<"2021">>
    /\ pc = "walk"
    /\ InitRun

NextWalk == GenerateWalk

SpecWalk == InitWalk /\ [][NextWalk]_vars

\* The directories that directly hold a go.mod file and lie in no directory
\* named internal (rootDir counted)
Modules ==
    { Dir(p) : p \in { q \in DOMAIN tree :
                          /\ q[Len(q)] = "go.mod"
                          /\ tree[q] = "file"
                          /\ RootName # "internal"
                          /\ \A i \in 1..(Len(q) - 1) : q[i] # "internal" } }

\* C8: after the walk, dirs holds exactly once every directory that directly
\* holds a go.mod file and lies in no directory named internal, and no other.
WalkFindsAllModules ==
    pc # "walk" =>
      /\ Range(dirs) = Modules
      /\ \A i, j \in 1..Len(dirs) : i # j => dirs[i] # dirs[j]

\* ------------------------------------------- one symbol with one example

Lines == UNION { [1..n -> {TAB, "x"}] : n \in 0..MaxLineLen }

LineSeqs == UNION { [1..n -> Lines] : n \in 0..MaxLines }

FmtExamples ==
    { [Name |-> S_F, Suffix |-> <<>>, Play |-> play,
       Code |-> [comment |-> comment, lines |-> lines]] :
        play \in BOOLEAN, comment \in BOOLEAN, lines \in LineSeqs }

InitFmt ==
    /\ rootDir = ""
    /\ tree = Entry("go.mod", "file", EmptyTree)
    /\ apiShortnames = (pkgKms.ImportPath :> shortKms)
    /\ unwritable = {}
    /\ year \in {<<"2021">>, <<"2026">>}
    /\ pc = "process"
    /\ dirs = <<<<>>>>
    /\ mi = 1
    /\ \E ex \in FmtExamples :
         /\ ~(ex.Play /\ ex.Code.comment)
         /\ pis = <<[ImportPath |-> pkgKms.ImportPath,
                     Funcs |-> <<Func(S_F, <<ex>>)>>, Types |-> <<>>]>>
    /\ pidx = 1
    /\ loaded = {pkgKms.ImportPath}
    /\ done = <<>>
    /\ errs = <<>>
    /\ writes = <<>>
    /\ mkdirs = {}
    /\ goimports = FALSE
    /\ ret = "running"
    /\ cgr = NoCgr
    /\ got = NoGot

NextFmt == GenerateProcess

SpecFmt == InitFmt /\ [][NextFmt]_vars

StartLine(tag) == <<"// [START ">> \o tag \o <<"]">>
EndLine(tag) == <<"// [END ">> \o tag \o <<"]">>

\* C1: every written file is the license header, a line "// [START <tag>]", a
\* blank line, the example body and a last line "// [END <tag>]" with the same
\* tag, each marker on a line of its own.
FileLayout ==
    \A w \in Range(writes) :
        LET L == Split(w.content, NL)
            h == Len(Split(header, NL)) - 1
        IN  /\ HasPrefix(w.content, header)
            /\ Len(L) >= h + 4
            /\ L[h + 1] = StartLine(w.tag)
            /\ L[h + 2] = <<>>
            /\ L[Len(L) - 1] = EndLine(w.tag)
            /\ L[Len(L)] = <<>>

\* The positions of the newlines of s
Newlines(s) == {i \in 1..Len(s) : s[i] = NL}

Untab(line) == IF line # <<>> /\ line[1] = TAB THEN Tail(line) ELSE line

\* The lines of s that lie between two newlines, from the newline at position
\* a on, each without one leading tab and ended by a newline
RECURSIVE InnerFrom(_, _)
InnerFrom(s, a) ==
    LET later == {i \in Newlines(s) : i > a}
    IN  IF later = {} THEN <<>>
        ELSE LET b == CHOOSE i \in later : \A j \in later : i <= j
             IN  Untab(SubSeq(s, a + 1, b - 1)) \o <<NL>> \o InnerFrom(s, b)

IsBlock(s) ==
    /\ Len(s) >= 3
    /\ s[1] = "{" /\ s[2] = NL
    /\ s[Len(s) - 1] = NL /\ s[Len(s)] = "}"

\* C9: formatted source that starts with "{\n" and ends with "\n}" is written
\* as its lines strictly between the brace lines, each without at most one
\* leading tab and ended by a newline; any other source is written unchanged.
BodyWritten ==
    \A w \in Range(writes) :
        w.content =
          header \o StartLine(w.tag) \o <<NL, NL>>
            \o (IF IsBlock(w.src) THEN InnerFrom(w.src, 2) ELSE w.src)
            \o EndLine(w.tag) \o <<NL>>

BodyWrittenWitness ==
    \E w \in Range(writes) :
        /\ w.src = <<"{", NL, TAB, TAB, NL, "x", NL, "}">>
        /\ HasSuffix(w.content, <<NL, NL, TAB, NL, "x", NL>> \o EndLine(w.tag) \o <<NL>>)

\* ------------------------------------------- firestore: GetPartitions

CollectionIDs == {"collectionID", "cities", "users"}

\* The cursors a PartitionQuery response may hold, in document order
Cursors == <<"a", "b", "c">>

\* newCollectionGroupRef: the query over all collections named collectionID
newCollectionGroupRef(collectionID) ==
    [collectionID |-> collectionID, Query |-> collectionID]

\* The responses to a request for count partitions: an error, or fewer than
\* count cursors in increasing order
Responses(count) ==
    {[err |-> TRUE, cursors |-> <<>>]}
      \cup { [err |-> FALSE, cursors |-> [i \in 1..Len(ix) |-> Cursors[ix[i]]]] :
               ix \in { x \in UNION { [1..n -> 1..Len(Cursors)] : n \in 0..(count - 1) } :
                          \A i, j \in 1..Len(x) : i < j => x[i] < x[j] } }

Partitions(query, cursors) ==
    [i \in 1..(Len(cursors) + 1) |->
        [CollectionGroupQuery |-> query,
         StartAt |-> IF i = 1 THEN "" ELSE cursors[i - 1],
         EndBefore |-> IF i > Len(cursors) THEN "" ELSE cursors[i]]]

GetPartitionsMutant(c, partitionCount, resp) ==
    IF partitionCount < 0 \/ (partitionCount > 1 /\ resp.err)
    THEN [err |-> TRUE, parts |-> <<>>]
    ELSE IF partitionCount = 0 THEN [err |-> FALSE, parts |-> <<>>]
    ELSE IF partitionCount = 1 THEN [err |-> FALSE, parts |-> Partitions(c.Query, <<>>)]
    ELSE [err |-> FALSE, parts |-> Partitions(c.Query, resp.cursors)]

\* CollectionGroupRef.GetPartitions; resp is the service's response, asked for
\* only when more than one partition is requested
GetPartitions(c, partitionCount, resp) ==
    IF partitionCount < 1 \/ (partitionCount > 1 /\ resp.err)
    THEN [err |-> TRUE, parts |-> <<>>]
    ELSE IF partitionCount = 1 THEN [err |-> FALSE, parts |-> Partitions(c.Query, <<>>)]
    ELSE [err |-> FALSE, parts |-> Partitions(c.Query, resp.cursors)]

UnchangedRun ==
    UNCHANGED <<rootDir, tree, apiShortnames, unwritable, year, pc, dirs, mi, pis, pidx,
                loaded, done, errs, writes, mkdirs, goimports, ret>>

NewRef ==
    /\ \E id \in CollectionIDs : cgr' = newCollectionGroupRef(id)
    /\ UNCHANGED got
    /\ UnchangedRun

CallGetPartitions ==
    /\ cgr # NoCgr
    /\ \E count \in (-1)..MaxCount :
         \E resp \in Responses(count) :
           LET r == GetPartitions(cgr, count, resp)
           IN  got' = [called |-> TRUE, count |-> count, query |-> cgr.Query,
                       err |-> r.err, parts |-> r.parts]
    /\ UNCHANGED cgr
    /\ UnchangedRun

InitPart ==
    /\ rootDir = ""
    /\ tree = EmptyTree
    /\ apiShortnames = [p \in {} |-> <<>>]
    /\ unwritable = {}
    /\ year = <<"2021">>
    /\ pc = "done"
    /\ InitRun

NextPart == NewRef \/ CallGetPartitions

SpecPart == InitPart /\ [][NextPart]_vars

\* C6: GetPartitions returns an error whenever fewer than one partition is
\* requested; for exactly one it returns, without error, the one partition whose
\* CollectionGroupQuery is the collection group's query and whose StartAt and
\* EndBefore are empty.
PartitionCountContract ==
    got.called =>
      /\ got.count < 1 => got.err
      /\ got.count = 1 =>
           /\ ~got.err
           /\ got.parts = <<[CollectionGroupQuery |-> got.query,
                             StartAt |-> "", EndBefore |-> ""]>>

PartitionCountContractWitness ==
    /\ got.called
    /\ got.count = 1
    /\ Len(got.parts) = 1
    /\ got.query = "cities"

====
